---- MODULE Spec2Model ----
(***************************************************************************)
(* Background task registry, worker, cancel, poll and sweeper of           *)
(* src/app.py, modelled at the granularity of one shared-field access per  *)
(* step: the worker thread (stream_openrouter_background) and the request  *)
(* handlers (cancel_task, get_task_status) run without a common lock on    *)
(* the task object, so every attribute read or write is its own step.      *)
(***************************************************************************)
EXTENDS Integers, Sequences, FiniteSets, TLC

VARIABLES
    BACKGROUND_TASKS,  \* keys of the registry map (app.py:26)
    task,              \* the BackgroundTask objects, by id; an object outlives its map entry
    now,               \* datetime.now(), in seconds
    wpc,               \* per task: position of its worker in stream_openrouter_background
    wloc,              \* per task: the worker's locals chunk_count, total_content, json_data
    gen,               \* per task: the stream_openrouter generator the worker iterates
    creq,              \* the cancel_task request in flight
    poll,              \* the get_task_status request in flight
    hist,              \* history: the values the polled task held while the poll ran
    cip,               \* history: the chunks of each task whose cancel flag was first set while in_progress
    early,             \* history: tasks whose cancel flag was first set before any stream event
    lock,              \* TASK_LOCK: the function inside its with block, "free" when none
    sweep,             \* cleanup_old_tasks inside its with block: position and tasks_to_remove
    strm,              \* the stream_task_results request in flight and its generate()
    rsm,               \* one run of stream_openrouter's provider loop: its locals and its events
    agt,               \* one run of run_agentic_loop: its locals and its events
    pool,              \* TASK_EXECUTOR: its work queue and the work its threads run
    lst,               \* the list_tasks request in flight, and its last answer
    calc,              \* one call of calculate_math: its argument and what it did
    sub                \* the search_background request in flight, and its last answer

\* the registry, the tasks, their workers and the cancel and poll requests
taskVars == <<BACKGROUND_TASKS, task, now, wpc, wloc, gen, creq, poll, cip, early>>

\* the variables of the other components
others == <<lock, sweep, strm, rsm, agt, pool, lst, calc, sub>>

vars == <<BACKGROUND_TASKS, task, now, wpc, wloc, gen, creq, poll, hist, cip, early,
          lock, sweep, strm, rsm, agt, pool, lst, calc, sub>>

----------------------------------------------------------------------------
(* Bounds of the model *)

\* non-terminal events one stream delivers at most
MaxEvents == 1
\* advances of the clock
MaxTicks == 2
\* pieces of text one provider stream delivers at most, over all its deltas
MaxText == 6
\* tool calls one provider response carries at most
MaxCalls == 1
\* the largest limit a list_tasks request asks for
MaxLimit == 1
\* submissions handed to TASK_EXECUTOR
MaxSubmissions == 7
\* characters of an argument of calculate_math
MaxExpr == 3

\* the task ids the submissions draw from (uuid4 values: never reused)
TaskIds == {1}

----------------------------------------------------------------------------
(* Program constants *)

MAX_TASK_AGE == 3600
MAX_WORKERS == 5
max_iterations == 5

QUEUED == "queued"
IN_PROGRESS == "in_progress"
COMPLETED == "completed"
FAILED == "failed"
CANCELLED == "cancelled"

TaskStatus == {QUEUED, IN_PROGRESS, COMPLETED, FAILED, CANCELLED}
Terminal == {COMPLETED, FAILED, CANCELLED}

\* Python's None and a present value, as the empty and the one-element set
None == {}
Some(x) == {x}

----------------------------------------------------------------------------
(* BackgroundTask *)

BackgroundTask(t, created) ==
    [id |-> t, status |-> QUEUED, created_at |-> created, started_at |-> None,
     completed_at |-> None, progress |-> 0, result |-> None, error |-> None,
     chunks |-> <<>>, cancel_requested |-> FALSE]

\* the events stream_openrouter yields, as the JSON object's discriminating key
\* and its text; text is a sequence of characters
Ev(k, v) == [key |-> k, val |-> v]
NoEvent == Ev("none", <<>>)
EvSearch == Ev("web_search_results", <<"w">>)
EvReasoning == Ev("reasoning", <<"r">>)
EvChunk == Ev("chunk", <<"4">>)
EvEnd == Ev("end_of_stream", <<>>)
EvError == Ev("error", <<"E">>)
\* str(e) of an exception that left the generator
ExcText == <<"X">>

Min(a, b) == IF a < b THEN a ELSE b

\* progress estimate after chunk_count stored chunks
Progress(chunk_count) ==
    IF chunk_count < 50
    THEN Min(chunk_count * 2, 90)
    ELSE Min(90 + ((chunk_count - 50) \div 10), 99)

\* the summary of the result: total_content cut to 500 characters
Summary(total_content) ==
    IF Len(total_content) > 500
    THEN SubSeq(total_content, 1, 500) \o <<".", ".", ".">>
    ELSE total_content

Result(chunk_count, total_content) ==
    [total_chunks |-> chunk_count, content_length |-> Len(total_content),
     summary |-> Summary(total_content)]

IsPrefix(s, u) == Len(s) <= Len(u) /\ SubSeq(u, 1, Len(s)) = s

----------------------------------------------------------------------------
(* Initial state: module load *)

NoLocals == [chunk_count |-> 0, total_content |-> <<>>, json_data |-> NoEvent]
\* the generator before its first next(); out: the events it has yielded so far
NoGen == [phase |-> "pre", n |-> 0, searched |-> FALSE, out |-> <<>>]
\* no request in flight; resp and code keep the status code of the last answer
NoCancel == [pc |-> "idle", id |-> 0, status0 |-> "none", resp |-> 0]
NoResponse ==
    [status |-> "none", started_at |-> None, completed_at |-> None, progress |-> 0,
     duration |-> None, error |-> None, chunks_count |-> 0,
     has_chunks |-> FALSE, chunks |-> <<>>, result |-> None]
NoPoll ==
    [pc |-> "idle", id |-> 0, status0 |-> "none", code |-> 0, r |-> NoResponse,
     prev |-> [t \in TaskIds |-> <<>>]]

\* the sweeper asleep between two passes
NoSweep == [pc |-> "sleep", current_time |-> 0, tasks_to_remove |-> {}]

\* what get_tool_response_single gave last: a message, or the exception it let out
NoToolResponse ==
    [raised |-> FALSE, called |-> FALSE,
     message |-> [role |-> "none", tool_call_id |-> 0, name |-> "none", content |-> "none"]]

\* run_agentic_loop before its first statement; calls: the provider calls made,
\* executed: the callables run, exc: what except Exception caught, out: the
\* events yielded; messages: the conversation; tool_calls: message.tool_calls of
\* the last response (None, or a list); first: the position in messages of the
\* last response's message
NoAgent ==
    [pc |-> "idle", iteration |-> 0, calls |-> 0, total_tools_used |-> <<>>,
     executed |-> {}, tool_response |-> NoToolResponse, exc |-> "none", out |-> <<>>,
     messages |-> <<>>, tool_calls |-> None, first |-> 0]

\* no list_tasks request in flight; registry: the ids in BACKGROUND_TASKS when the
\* lock was taken, todo: the values still to visit, tasks: the list built so far
\* and, once answered, the list returned
NoList ==
    [pc |-> "idle", status_filter |-> None, limit |-> 0, registry |-> {},
     todo |-> <<>>, task |-> 0, tasks |-> <<>>]

\* calculate_math not called yet; evaluated: eval(expression) was run, raised: an
\* exception left the function
NoCalc ==
    [pc |-> "idle", expression |-> <<>>, evaluated |-> FALSE, failed |-> FALSE,
     raised |-> FALSE, result |-> "none"]

\* no search_background request in flight; task: the task the request created,
\* response: the JSON body of its last answer
NoSubmit ==
    [pc |-> "idle", task |-> 0, response |-> [id |-> 0, status |-> "none", created_at |-> 0]]

\* TASK_EXECUTOR before the first submission; submitted: the work items handed
\* in, numbered in the order of their submission
NoPool == [submitted |-> 0, work_queue |-> <<>>, running |-> {}, finished |-> {}]

\* stream_openrouter before its provider call; sent: the content deltas received
\* so far, concatenated; out: the events yielded so far
NoReasm ==
    [pc |-> "idle", buffer |-> <<>>, in_chart_config_block |-> FALSE,
     chart_config_str |-> <<>>, content_received_from_openrouter |-> FALSE,
     sent |-> <<>>, out |-> <<>>]

\* no stream request in flight; sent: the stored events relayed so far, last: the
\* keys of the event yielded last
NoStream ==
    [pc |-> "idle", id |-> 0, last_chunk_index |-> 0, current_chunks |-> <<>>,
     sent |-> <<>>, last |-> {}, code |-> 0]

Init ==
    /\ BACKGROUND_TASKS = {}
    /\ task = <<>>
    /\ now = 0
    /\ wpc = [t \in TaskIds |-> "none"]
    /\ wloc = [t \in TaskIds |-> NoLocals]
    /\ gen = [t \in TaskIds |-> NoGen]
    /\ creq = NoCancel
    /\ poll = NoPoll
    /\ hist = {}
    /\ cip = <<>>
    /\ early = {}
    /\ lock = "free"
    /\ sweep = NoSweep
    /\ strm = NoStream
    /\ rsm = NoReasm
    /\ agt = NoAgent
    /\ pool = NoPool
    /\ lst = NoList
    /\ calc = NoCalc
    /\ sub = NoSubmit

\* history of the task a poll is reading: every value it held since the lookup;
\* the last conjunct of every action
HistStep ==
    hist' = IF poll'.pc = "idle"
            THEN {}
            ELSE IF poll.pc = "idle"
                 THEN {task'[poll'.id]}
                 ELSE hist \cup {task'[poll'.id]}

----------------------------------------------------------------------------
(* search_background: the submission *)

\* builds the task, stores it under TASK_LOCK and hands it to TASK_EXECUTOR; the
\* request is then at its return statement
search_background(t) ==
    /\ lock = "free"
    /\ wpc[t] = "none"
    /\ t \notin DOMAIN task
    /\ task' = task @@ (t :> BackgroundTask(t, now))
    /\ BACKGROUND_TASKS' = BACKGROUND_TASKS \cup {t}
    /\ wpc' = [wpc EXCEPT ![t] = "submitted"]
    /\ sub' = [sub EXCEPT !.pc = "L2140", !.task = t]
    /\ UNCHANGED <<now, wloc, gen, creq, poll, cip, early>>
    /\ UNCHANGED <<lock, sweep, strm, rsm, agt, pool, lst, calc>>
    /\ HistStep

\* return jsonify({'id': task_id, 'status': task.status, 'created_at': ...}): the
\* attributes of the task object the request holds, as they are now
SubmitRespond ==
    /\ sub.pc = "L2140"
    /\ sub' = [sub EXCEPT
                 !.pc = "idle",
                 !.response = [id |-> sub.task, status |-> task[sub.task].status,
                               created_at |-> task[sub.task].created_at]]
    /\ UNCHANGED taskVars
    /\ UNCHANGED <<lock, sweep, strm, rsm, agt, pool, lst, calc>>
    /\ HistStep

----------------------------------------------------------------------------
(* stream_openrouter, as the worker sees it: what one next() can do *)

Yield(e, g) == [raised |-> FALSE, ev |-> e, g |-> [g EXCEPT !.out = Append(@, e)]]
Ended(g) == [g EXCEPT !.phase = "ended"]
Raised(g) == [g EXCEPT !.phase = "raised"]
Streaming(g) == [g EXCEPT !.phase = "stream", !.n = g.n + 1]

\* inside the try block of the provider call: reasoning and text events, then
\* end_of_stream; a provider error is caught and yielded as an error event
StreamOutcomes(g) ==
    {Yield(e, Streaming(g)) : e \in IF g.n < MaxEvents THEN {EvReasoning, EvChunk} ELSE {}}
        \cup {Yield(EvEnd, Ended(g)), Yield(EvError, Ended(g))}

\* before the try block: the web search event, the validation errors, and the
\* statements that raise on a malformed request (query.lower() of a non-string)
PreOutcomes(g) ==
    {Yield(EvSearch, [g EXCEPT !.searched = TRUE, !.n = g.n + 1]) :
        x \in IF ~g.searched /\ g.n < MaxEvents THEN {1} ELSE {}}
        \cup {Yield(EvError, Ended(g))}
        \cup {[raised |-> TRUE, ev |-> NoEvent, g |-> Raised(g)]}
        \cup StreamOutcomes(g)

stream_openrouter(g) ==
    CASE g.phase = "pre" -> PreOutcomes(g)
      [] g.phase = "stream" -> StreamOutcomes(g)
      [] OTHER -> {}

----------------------------------------------------------------------------
(* stream_openrouter_background: the worker, one shared access per step *)

Running == {u \in TaskIds : wpc[u] \notin {"none", "submitted", "done"}}

WorkerFrame ==
    UNCHANGED <<BACKGROUND_TASKS, now, creq, poll, cip, early>> /\ UNCHANGED others /\ HistStep

\* a pool thread takes the task and looks it up
WorkerLookup(t) ==
    /\ wpc[t] = "submitted"
    /\ Cardinality(Running) < MAX_WORKERS
    /\ wpc' = [wpc EXCEPT ![t] = IF t \in BACKGROUND_TASKS THEN "L130" ELSE "done"]
    /\ UNCHANGED <<task, wloc, gen>>
    /\ WorkerFrame

WorkerMarkInProgress(t) ==
    /\ wpc[t] = "L130"
    /\ task' = [task EXCEPT ![t].status = IN_PROGRESS]
    /\ wpc' = [wpc EXCEPT ![t] = "L131"]
    /\ UNCHANGED <<wloc, gen>>
    /\ WorkerFrame

WorkerStampStarted(t) ==
    /\ wpc[t] = "L131"
    /\ task' = [task EXCEPT ![t].started_at = Some(now)]
    /\ wpc' = [wpc EXCEPT ![t] = "L147"]
    /\ UNCHANGED <<wloc, gen>>
    /\ WorkerFrame

\* for chunk_data in generator: the next event, or the exception that leaves it
WorkerNext(t) ==
    /\ wpc[t] = "L147"
    /\ \E o \in stream_openrouter(gen[t]) :
        /\ gen' = [gen EXCEPT ![t] = o.g]
        /\ wloc' = [wloc EXCEPT ![t].json_data = IF o.raised THEN @ ELSE o.ev]
        /\ wpc' = [wpc EXCEPT ![t] = IF o.raised THEN "L205" ELSE "L148"]
    /\ UNCHANGED task
    /\ WorkerFrame

\* mutant: the worker never looks at cancel_requested
M_CheckCancelIgnored(t) ==
    /\ wpc[t] = "L148"
    /\ wpc' = [wpc EXCEPT ![t] = "L160"]
    /\ UNCHANGED <<task, wloc, gen>>
    /\ WorkerFrame

\* if task.cancel_requested: task.status = CANCELLED
WorkerCheckCancel(t) ==
    /\ wpc[t] = "L148"
    /\ IF task[t].cancel_requested
       THEN /\ task' = [task EXCEPT ![t].status = CANCELLED]
            /\ wpc' = [wpc EXCEPT ![t] = "L150"]
       ELSE /\ task' = task
            /\ wpc' = [wpc EXCEPT ![t] = "L160"]
    /\ UNCHANGED <<wloc, gen>>
    /\ WorkerFrame

\* mutant: the return after the cancellation is missing
M_CancelStampNoReturn(t) ==
    /\ wpc[t] = "L150"
    /\ task' = [task EXCEPT ![t].completed_at = Some(now)]
    /\ wpc' = [wpc EXCEPT ![t] = "L160"]
    /\ UNCHANGED <<wloc, gen>>
    /\ WorkerFrame

WorkerCancelStamp(t) ==
    /\ wpc[t] = "L150"
    /\ task' = [task EXCEPT ![t].completed_at = Some(now)]
    /\ wpc' = [wpc EXCEPT ![t] = "done"]
    /\ UNCHANGED <<wloc, gen>>
    /\ WorkerFrame

\* mutant: the event is inserted at the head of task.chunks
M_AppendAtHead(t) ==
    /\ wpc[t] = "L160"
    /\ task' = [task EXCEPT ![t].chunks = <<wloc[t].json_data>> \o @]
    /\ wloc' = [wloc EXCEPT ![t].chunk_count = @ + 1]
    /\ wpc' = [wpc EXCEPT ![t] = "L168"]
    /\ UNCHANGED gen
    /\ WorkerFrame

\* mutant: only the text events are stored
M_AppendTextOnly(t) ==
    /\ wpc[t] = "L160"
    /\ task' = [task EXCEPT ![t].chunks =
                  IF wloc[t].json_data.key = "chunk" THEN Append(@, wloc[t].json_data) ELSE @]
    /\ wloc' = [wloc EXCEPT
                  ![t].chunk_count = @ + 1,
                  ![t].total_content =
                      IF wloc[t].json_data.key = "chunk" THEN @ \o wloc[t].json_data.val ELSE @]
    /\ wpc' = [wpc EXCEPT ![t] = "L168"]
    /\ UNCHANGED gen
    /\ WorkerFrame

\* task.chunks.append(json_data); chunk_count += 1; total_content += chunk text
WorkerAppend(t) ==
    /\ wpc[t] = "L160"
    /\ task' = [task EXCEPT ![t].chunks = Append(@, wloc[t].json_data)]
    /\ wloc' = [wloc EXCEPT
                  ![t].chunk_count = @ + 1,
                  ![t].total_content =
                      IF wloc[t].json_data.key = "chunk" THEN @ \o wloc[t].json_data.val ELSE @]
    /\ wpc' = [wpc EXCEPT ![t] = "L168"]
    /\ UNCHANGED gen
    /\ WorkerFrame

\* the progress estimate, then the branch on the event's key
WorkerProgress(t) ==
    /\ wpc[t] = "L168"
    /\ task' = [task EXCEPT ![t].progress = Progress(wloc[t].chunk_count)]
    /\ wpc' = [wpc EXCEPT ![t] =
                 CASE wloc[t].json_data.key = "end_of_stream" -> "L175"
                   [] wloc[t].json_data.key = "error" -> "L188"
                   [] OTHER -> "L147"]
    /\ UNCHANGED <<wloc, gen>>
    /\ WorkerFrame

WorkerEndProgress(t) ==
    /\ wpc[t] = "L175"
    /\ task' = [task EXCEPT ![t].progress = 100]
    /\ wpc' = [wpc EXCEPT ![t] = "L176"]
    /\ UNCHANGED <<wloc, gen>>
    /\ WorkerFrame

\* mutant: the worker stores the task again when it completes it
M_WorkerEndStatusStores(t) ==
    /\ wpc[t] = "L176"
    /\ task' = [task EXCEPT ![t].status = COMPLETED]
    /\ wpc' = [wpc EXCEPT ![t] = "L177"]
    /\ BACKGROUND_TASKS' = BACKGROUND_TASKS \cup {t}
    /\ UNCHANGED <<wloc, gen, now, creq, poll, cip, early>>
    /\ UNCHANGED others
    /\ HistStep

WorkerEndStatus(t) ==
    /\ wpc[t] = "L176"
    /\ task' = [task EXCEPT ![t].status = COMPLETED]
    /\ wpc' = [wpc EXCEPT ![t] = "L177"]
    /\ UNCHANGED <<wloc, gen>>
    /\ WorkerFrame

WorkerEndStamp(t) ==
    /\ wpc[t] = "L177"
    /\ task' = [task EXCEPT ![t].completed_at = Some(now)]
    /\ wpc' = [wpc EXCEPT ![t] = "L178"]
    /\ UNCHANGED <<wloc, gen>>
    /\ WorkerFrame

WorkerEndResult(t) ==
    /\ wpc[t] = "L178"
    /\ task' = [task EXCEPT ![t].result =
                  Some(Result(wloc[t].chunk_count, wloc[t].total_content))]
    /\ wpc' = [wpc EXCEPT ![t] = "done"]
    /\ UNCHANGED <<wloc, gen>>
    /\ WorkerFrame

WorkerErrStatus(t) ==
    /\ wpc[t] = "L188"
    /\ task' = [task EXCEPT ![t].status = FAILED]
    /\ wpc' = [wpc EXCEPT ![t] = "L189"]
    /\ UNCHANGED <<wloc, gen>>
    /\ WorkerFrame

\* mutant: the error event's text is not recorded
M_ErrErrorForgotten(t) ==
    /\ wpc[t] = "L189"
    /\ wpc' = [wpc EXCEPT ![t] = "L190"]
    /\ UNCHANGED <<task, wloc, gen>>
    /\ WorkerFrame

\* task.error = json_data['error']
WorkerErrError(t) ==
    /\ wpc[t] = "L189"
    /\ task' = [task EXCEPT ![t].error = Some(wloc[t].json_data.val)]
    /\ wpc' = [wpc EXCEPT ![t] = "L190"]
    /\ UNCHANGED <<wloc, gen>>
    /\ WorkerFrame

WorkerErrStamp(t) ==
    /\ wpc[t] = "L190"
    /\ task' = [task EXCEPT ![t].completed_at = Some(now)]
    /\ wpc' = [wpc EXCEPT ![t] = "done"]
    /\ UNCHANGED <<wloc, gen>>
    /\ WorkerFrame

\* mutant: the handler records the error and leaves the status alone
M_ExcStatusForgotten(t) ==
    /\ wpc[t] = "L205"
    /\ wpc' = [wpc EXCEPT ![t] = "L206"]
    /\ UNCHANGED <<task, wloc, gen>>
    /\ WorkerFrame

\* except Exception as e
WorkerExcStatus(t) ==
    /\ wpc[t] = "L205"
    /\ task' = [task EXCEPT ![t].status = FAILED]
    /\ wpc' = [wpc EXCEPT ![t] = "L206"]
    /\ UNCHANGED <<wloc, gen>>
    /\ WorkerFrame

WorkerExcError(t) ==
    /\ wpc[t] = "L206"
    /\ task' = [task EXCEPT ![t].error = Some(ExcText)]
    /\ wpc' = [wpc EXCEPT ![t] = "L207"]
    /\ UNCHANGED <<wloc, gen>>
    /\ WorkerFrame

WorkerExcStamp(t) ==
    /\ wpc[t] = "L207"
    /\ task' = [task EXCEPT ![t].completed_at = Some(now)]
    /\ wpc' = [wpc EXCEPT ![t] = "done"]
    /\ UNCHANGED <<wloc, gen>>
    /\ WorkerFrame

stream_openrouter_background(t) ==
    \/ WorkerLookup(t)
    \/ WorkerMarkInProgress(t)
    \/ WorkerStampStarted(t)
    \/ WorkerNext(t)
    \/ WorkerCheckCancel(t)
    \/ WorkerCancelStamp(t)
    \/ WorkerAppend(t)
    \/ WorkerProgress(t)
    \/ WorkerEndProgress(t)
    \/ WorkerEndStatus(t)
    \/ WorkerEndStamp(t)
    \/ WorkerEndResult(t)
    \/ WorkerErrStatus(t)
    \/ WorkerErrError(t)
    \/ WorkerErrStamp(t)
    \/ WorkerExcStatus(t)
    \/ WorkerExcError(t)
    \/ WorkerExcStamp(t)

----------------------------------------------------------------------------
(* cancel_task: DELETE /tasks/<task_id> *)

CancelFrame ==
    UNCHANGED <<BACKGROUND_TASKS, now, wpc, wloc, gen, poll>> /\ UNCHANGED others /\ HistStep

\* task = BACKGROUND_TASKS.get(task_id); 404 when it is not there
CancelLookup(t) ==
    /\ creq.pc = "idle"
    /\ creq' = IF t \in BACKGROUND_TASKS
               THEN [pc |-> "L2212", id |-> t, status0 |-> task[t].status, resp |-> 0]
               ELSE [NoCancel EXCEPT !.resp = 404]
    /\ UNCHANGED <<task, cip, early>>
    /\ CancelFrame

\* the statuses for which cancel_task answers 400 'Task already completed'
CancelConflict == {COMPLETED, FAILED}

CancelCheck ==
    /\ creq.pc = "L2212"
    /\ creq' = IF task[creq.id].status \in CancelConflict
               THEN [NoCancel EXCEPT !.resp = 400]
               ELSE [creq EXCEPT !.pc = "L2215"]
    /\ UNCHANGED <<task, cip, early>>
    /\ CancelFrame

\* mutant: the request is answered and the flag is not set
M_CancelWriteNothing ==
    /\ creq.pc = "L2215"
    /\ creq' = [NoCancel EXCEPT !.resp = 200]
    /\ early' = IF ~task[creq.id].cancel_requested /\ gen[creq.id] = NoGen
                THEN early \cup {creq.id} ELSE early
    /\ UNCHANGED <<task, cip>>
    /\ CancelFrame

\* mutant: the request sets the status itself
M_CancelWritesStatus ==
    /\ creq.pc = "L2215"
    /\ task' = [task EXCEPT ![creq.id].cancel_requested = TRUE,
                            ![creq.id].status = CANCELLED]
    /\ creq' = [NoCancel EXCEPT !.resp = 200]
    /\ cip' = IF ~task[creq.id].cancel_requested /\ task[creq.id].status = IN_PROGRESS
              THEN cip @@ (creq.id :> task[creq.id].chunks) ELSE cip
    /\ early' = IF ~task[creq.id].cancel_requested /\ gen[creq.id] = NoGen
                THEN early \cup {creq.id} ELSE early
    /\ CancelFrame

\* task.cancel_requested = True, answered 200 'cancel_requested'
CancelWrite ==
    /\ creq.pc = "L2215"
    /\ task' = [task EXCEPT ![creq.id].cancel_requested = TRUE]
    /\ creq' = [NoCancel EXCEPT !.resp = 200]
    /\ cip' = IF ~task[creq.id].cancel_requested /\ task[creq.id].status = IN_PROGRESS
              THEN cip @@ (creq.id :> task[creq.id].chunks) ELSE cip
    /\ early' = IF ~task[creq.id].cancel_requested /\ gen[creq.id] = NoGen
                THEN early \cup {creq.id} ELSE early
    /\ CancelFrame

cancel_task ==
    \/ \E t \in TaskIds : CancelLookup(t)
    \/ CancelCheck
    \/ CancelWrite

----------------------------------------------------------------------------
(* get_task_status: GET /tasks/<task_id>, with BackgroundTask.to_dict *)

PollFrame ==
    /\ UNCHANGED <<BACKGROUND_TASKS, task, now, wpc, wloc, gen, creq, cip, early>>
    /\ UNCHANGED others
    /\ HistStep

PollLookup(t) ==
    /\ poll.pc = "idle"
    /\ poll' = IF t \in BACKGROUND_TASKS
               THEN [poll EXCEPT !.pc = "L62", !.id = t, !.status0 = task[t].status,
                                 !.code = 0, !.r = NoResponse]
               ELSE [poll EXCEPT !.code = 404]
    /\ PollFrame

Duration(tk) ==
    IF tk.completed_at # None /\ tk.started_at # None
    THEN {c - s : c \in tk.completed_at, s \in tk.started_at}
    ELSE None

\* the value to_dict stores under a key
Attr(tk, key) ==
    CASE key = "duration" -> Duration(tk)
      [] key = "chunks_count" -> Len(tk.chunks)
      [] OTHER -> tk[key]

\* to_dict reads the attributes one after the other
PollRead(at, next, key) ==
    /\ poll.pc = at
    /\ poll' = [poll EXCEPT !.pc = next, !.r[key] = Attr(task[poll.id], key)]
    /\ PollFrame

to_dict ==
    \/ PollRead("L62", "L64", "status")
    \/ PollRead("L64", "L65", "started_at")
    \/ PollRead("L65", "L66", "completed_at")
    \/ PollRead("L66", "L67", "progress")
    \/ PollRead("L67", "L68", "duration")
    \/ PollRead("L68", "L69", "error")
    \/ PollRead("L69", "L2159", "chunks_count")

\* mutant: every terminal status is listed
M_PollIncludesTerminal == {COMPLETED, FAILED, CANCELLED}

\* the statuses for which the poll adds 'chunks' and 'result'
PollIncludes == {COMPLETED, FAILED}

\* if task.status in [...]: response['chunks'] = task.chunks (the list itself)
PollCheck ==
    /\ poll.pc = "L2159"
    /\ poll' = IF task[poll.id].status \in PollIncludes
               THEN [poll EXCEPT !.pc = "L2161", !.r.has_chunks = TRUE]
               ELSE [poll EXCEPT !.pc = "L2163"]
    /\ PollFrame

PollReadResult ==
    /\ poll.pc = "L2161"
    /\ poll' = [poll EXCEPT !.pc = "L2163", !.r.result = task[poll.id].result]
    /\ PollFrame

\* what jsonify(response) serialises: the list the response refers to is read now
Response ==
    [poll.r EXCEPT !.chunks = IF poll.r.has_chunks THEN task[poll.id].chunks ELSE <<>>]

\* return jsonify(response): the response leaves; prev keeps the chunks it carried
PollJsonify ==
    /\ poll.pc = "L2163"
    /\ poll' = [NoPoll EXCEPT !.code = 200,
                              !.prev = [poll.prev EXCEPT ![poll.id] =
                                          IF poll.r.has_chunks THEN Response.chunks ELSE @]]
    /\ PollFrame

get_task_status ==
    \/ \E t \in TaskIds : PollLookup(t)
    \/ to_dict
    \/ PollCheck
    \/ PollReadResult
    \/ PollJsonify

----------------------------------------------------------------------------
(* stream_task_results: GET /tasks/<task_id>/stream, and its generate() *)

\* the keys of the JSON objects generate() builds itself
StatusCancelled == {"status"}
StatusUpdate == {"status", "progress"}
\* mutant: the closing event also carries an error
M_StreamEndWithError == {"end_of_stream", "status", "error"}
StreamEnd == {"end_of_stream", "status"}

StrmFrame == UNCHANGED taskVars /\ UNCHANGED <<lock, sweep, rsm, agt, pool, lst, calc, sub>> /\ HistStep

\* task = BACKGROUND_TASKS.get(task_id); 404 when it is not there
StrmLookup(t) ==
    /\ strm.pc \in {"idle", "done"}
    /\ strm' = IF t \in BACKGROUND_TASKS
               THEN [NoStream EXCEPT !.pc = "L2181", !.id = t]
               ELSE [NoStream EXCEPT !.code = 404]
    /\ StrmFrame

\* if task.cancel_requested: yield {'status': 'cancelled'}; break
StrmCheckCancel ==
    /\ strm.pc = "L2181"
    /\ strm' = IF task[strm.id].cancel_requested
               THEN [strm EXCEPT !.pc = "done", !.last = StatusCancelled]
               ELSE [strm EXCEPT !.pc = "L2186"]
    /\ StrmFrame

\* current_chunks = task.chunks[last_chunk_index:]
StrmSlice ==
    /\ strm.pc = "L2186"
    /\ strm' = [strm EXCEPT
                  !.pc = "L2187",
                  !.current_chunks =
                      SubSeq(task[strm.id].chunks, strm.last_chunk_index + 1,
                             Len(task[strm.id].chunks))]
    /\ StrmFrame

\* for chunk in current_chunks: yield chunk
StrmRelay ==
    /\ strm.pc = "L2187"
    /\ strm.current_chunks # <<>>
    /\ strm' = [strm EXCEPT !.current_chunks = Tail(@),
                            !.sent = Append(@, Head(strm.current_chunks)),
                            !.last = {Head(strm.current_chunks).key}]
    /\ StrmFrame

\* last_chunk_index = len(task.chunks)
StrmIndex ==
    /\ strm.pc = "L2187"
    /\ strm.current_chunks = <<>>
    /\ strm' = [strm EXCEPT !.pc = "L2192",
                            !.last_chunk_index = Len(task[strm.id].chunks)]
    /\ StrmFrame

\* yield {'status': task.status, 'progress': task.progress}
StrmStatus ==
    /\ strm.pc = "L2192"
    /\ strm' = [strm EXCEPT !.pc = "L2195", !.last = StatusUpdate]
    /\ StrmFrame

\* if task.status in [COMPLETED, FAILED, CANCELLED]: yield the closing event and
\* break; otherwise sleep and go round again
StrmCheckDone ==
    /\ strm.pc = "L2195"
    /\ strm' = IF task[strm.id].status \in Terminal
               THEN [strm EXCEPT !.pc = "done", !.last = StreamEnd]
               ELSE [strm EXCEPT !.pc = "L2181"]
    /\ StrmFrame

stream_task_results ==
    \/ \E t \in TaskIds : StrmLookup(t)
    \/ StrmCheckCancel
    \/ StrmSlice
    \/ StrmRelay
    \/ StrmIndex
    \/ StrmStatus
    \/ StrmCheckDone

----------------------------------------------------------------------------
(* stream_openrouter: the provider loop that reassembles the chart block *)

\* text is a sequence of pieces; the two sentinels share their first piece, so a
\* delta boundary can fall inside a sentinel
HEAD == "[[CHARTJS_CONFIG_"
NL == "\n"
JSON == "{\"a\":1}"
Pieces == {HEAD, "START]]", "END]]", JSON, "x", NL}
start_marker == <<HEAD, "START]]">>
end_marker == <<HEAD, "END]]">>

\* len(text), in characters
RECURSIVE len(_)
len(text) ==
    IF text = <<>> THEN 0
    ELSE (CASE Head(text) = HEAD -> 17
            [] Head(text) = "START]]" -> 7
            [] Head(text) = "END]]" -> 5
            [] Head(text) = JSON -> 7
            [] OTHER -> 1) + len(Tail(text))

\* text.find(marker), from 1; 0 when the marker is not in the text
Find(text, marker) ==
    LET at == {i \in 1..(Len(text) - Len(marker) + 1) :
                  SubSeq(text, i, i + Len(marker) - 1) = marker}
    IN  IF at = {} THEN 0 ELSE CHOOSE i \in at : \A j \in at : i <= j

\* text.split(marker, 1)[0] and [1]
Before(text, marker) == SubSeq(text, 1, Find(text, marker) - 1)
After(text, marker) == SubSeq(text, Find(text, marker) + Len(marker), Len(text))

\* json.loads: white space around one JSON value; anything else is a JSONDecodeError
RECURSIVE lstrip(_)
lstrip(text) == IF text # <<>> /\ Head(text) = NL THEN lstrip(Tail(text)) ELSE text
RECURSIVE rstrip(_)
rstrip(text) ==
    IF text # <<>> /\ text[Len(text)] = NL THEN rstrip(SubSeq(text, 1, Len(text) - 1)) ELSE text
IsJson(text) == rstrip(lstrip(text)) = <<JSON>>
json_loads(text) == <<"dict(a=1)">>

\* a delta with content, lines 902 to 937
Reassemble(r, content) ==
    LET b1 == r.buffer \o content
        found == ~r.in_chart_config_block /\ Find(b1, start_marker) # 0
        pre_block_content == Before(b1, start_marker)
        out1 == IF found /\ pre_block_content # <<>>
                THEN Append(r.out, Ev("chunk", pre_block_content)) ELSE r.out
        b2 == IF found THEN After(b1, start_marker) ELSE b1
        in2 == r.in_chart_config_block \/ found
        closed == in2 /\ Find(b2, end_marker) # 0
        str2 == IF ~in2 THEN r.chart_config_str
                ELSE IF closed THEN r.chart_config_str \o Before(b2, end_marker)
                     ELSE r.chart_config_str \o b2
        out2 == IF ~closed THEN out1
                ELSE IF IsJson(str2)
                     THEN Append(out1, Ev("chart_config", json_loads(str2)))
                     ELSE Append(out1, Ev("chunk", start_marker \o str2 \o end_marker))
        b3 == IF ~in2 THEN b2 ELSE IF closed THEN After(b2, end_marker) ELSE <<>>
        in3 == in2 /\ ~closed
        flush == ~in3 /\ b3 # <<>> /\ (Find(b3, <<NL>>) # 0 \/ len(b3) > 80)
    IN  [r EXCEPT !.content_received_from_openrouter = TRUE,
                  !.sent = @ \o content,
                  !.buffer = IF flush THEN <<>> ELSE b3,
                  !.in_chart_config_block = in3,
                  !.chart_config_str = IF closed THEN <<>> ELSE str2,
                  !.out = IF flush THEN Append(out2, Ev("chunk", b3)) ELSE out2]

\* the events of one kind
RECURSIVE Only(_, _)
Only(out, key) ==
    IF out = <<>> THEN <<>>
    ELSE (IF Head(out).key = key THEN <<Head(out)>> ELSE <<>>) \o Only(Tail(out), key)

\* mutant: a stream without content is closed with an error event
M_FlushErrorOnNoContent(r, sources) ==
    LET out1 == IF r.buffer = <<>> THEN r.out
                ELSE IF r.in_chart_config_block
                     THEN Append(r.out, Ev("chunk", start_marker \o r.chart_config_str \o r.buffer))
                     ELSE Append(r.out, Ev("chunk", r.buffer))
        out2 == IF sources /\ r.sent # <<>>
                THEN Append(out1, Ev("perplexity_sources", <<"s">>)) ELSE out1
        out3 == IF r.content_received_from_openrouter THEN out2 ELSE Append(out2, EvError)
    IN  [r EXCEPT !.pc = "done", !.out = Append(out3, EvEnd)]

\* after the loop, lines 969 to 985; sources: a Perplexity model with citations
Flush(r, sources) ==
    LET out1 == IF r.buffer = <<>> THEN r.out
                ELSE IF r.in_chart_config_block
                     THEN Append(r.out, Ev("chunk", start_marker \o r.chart_config_str \o r.buffer))
                     ELSE Append(r.out, Ev("chunk", r.buffer))
        out2 == IF sources /\ r.sent # <<>>
                THEN Append(out1, Ev("perplexity_sources", <<"s">>)) ELSE out1
    IN  [r EXCEPT !.pc = "done", !.out = Append(out2, EvEnd)]

\* the texts a delta can carry when budget pieces are left
RECURSIVE Texts(_)
Texts(budget) ==
    IF budget = 0 THEN {<<>>}
    ELSE {<<>>} \cup {<<p>> \o t : p \in Pieces, t \in Texts(budget - 1)}

ReasmFrame == UNCHANGED taskVars /\ UNCHANGED <<lock, sweep, strm, agt, pool, lst, calc, sub>> /\ HistStep

\* stream = openrouter_client_instance.chat.completions.create(...)
ReasmCreate ==
    /\ rsm.pc = "idle"
    /\ rsm' = [rsm EXCEPT !.pc = "stream"]
    /\ ReasmFrame

\* the pieces of text the provider can still deliver
Budget == MaxText - Len(rsm.sent) - Len(Only(rsm.out, "reasoning"))

\* for chunk in stream: a delta with reasoning and no content
ReasmReasoning ==
    /\ rsm.pc = "stream"
    /\ Budget > 0
    /\ rsm' = [rsm EXCEPT !.out = Append(@, EvReasoning)]
    /\ ReasmFrame

\* for chunk in stream: a delta with content
ReasmDelta ==
    /\ rsm.pc = "stream"
    /\ \E content \in Texts(Budget) : rsm' = Reassemble(rsm, content)
    /\ ReasmFrame

\* the stream is exhausted
ReasmExhausted ==
    /\ rsm.pc = "stream"
    /\ \E sources \in BOOLEAN : rsm' = Flush(rsm, sources)
    /\ ReasmFrame

\* the provider call or the iteration raises: except openai.APIError, except Exception
ReasmError ==
    /\ rsm.pc \in {"idle", "stream"}
    /\ rsm' = [rsm EXCEPT !.pc = "done", !.out = Append(@, EvError)]
    /\ ReasmFrame

ReasmNext ==
    \/ ReasmCreate
    \/ ReasmReasoning
    \/ ReasmDelta
    \/ ReasmExhausted
    \/ ReasmError

ReasmSpec == Init /\ [][ReasmNext]_vars

----------------------------------------------------------------------------
(* get_tool_response_single and run_agentic_loop *)

\* the declared tools (AGENTIC_TOOLS) and the callables behind them
AGENTIC_TOOLS ==
    {"get_current_time", "calculate_math", "search_web_tool", "create_note",
     "research_topic", "advanced_research_with_synthesis", "search_web_openrouter"}
TOOL_MAPPING ==
    {"get_current_time", "calculate_math", "search_web_tool", "create_note",
     "research_topic", "advanced_research_with_synthesis", "search_web_openrouter"}

\* what the provider can put in a tool call: the name of a tool or another name,
\* an arguments string that is a JSON object, another JSON value or no JSON at
\* all, and what the callable does when it is run
ToolNames == {"calculate_math", "search_web_tool", "no_such_tool"}
Arguments == {"object", "array", "malformed"}
Behaviours == {"returns", "raises"}
ToolCalls(ids) == [id : ids, name : ToolNames, arguments : Arguments, behaviour : Behaviours]

\* mutant: what the callable raises leaves the dispatcher
M_ToolRaisePropagates(tool_call) ==
    IF tool_call.arguments = "malformed"
          \/ (tool_call.name \in TOOL_MAPPING /\ tool_call.arguments = "object"
                /\ tool_call.behaviour = "raises")
    THEN [NoToolResponse EXCEPT !.raised = TRUE]
    ELSE [raised |-> FALSE,
          called |-> tool_call.name \in TOOL_MAPPING /\ tool_call.arguments = "object",
          message |->
             [role |-> "tool", tool_call_id |-> tool_call.id, name |-> tool_call.name,
              content |->
                 IF tool_call.name \notin TOOL_MAPPING THEN "Unknown tool"
                 ELSE IF tool_call.arguments = "object" THEN "result"
                      ELSE "Tool execution failed"]]

\* tool_args = json.loads(arguments) raises on a string that is no JSON; the call
\* TOOL_MAPPING[tool_name](**tool_args) is inside try, so what it raises (the
\* TypeError of ** on a value that is no object too) becomes an error result
get_tool_response_single(tool_call) ==
    IF tool_call.arguments = "malformed"
    THEN [NoToolResponse EXCEPT !.raised = TRUE]
    ELSE [raised |-> FALSE,
          called |-> tool_call.name \in TOOL_MAPPING /\ tool_call.arguments = "object",
          message |->
             [role |-> "tool", tool_call_id |-> tool_call.id, name |-> tool_call.name,
              content |->
                 IF tool_call.name \notin TOOL_MAPPING THEN "Unknown tool"
                 ELSE IF tool_call.arguments = "object" /\ tool_call.behaviour = "returns"
                      THEN "result"
                      ELSE "Tool execution failed"]]

\* 'search' in t or 'research' in t
IsSearch(t) ==
    t \in {"search_web_tool", "search_web_openrouter", "research_topic",
           "advanced_research_with_synthesis"}

\* the last n elements of a list
LastN(list, n) == SubSeq(list, IF Len(list) > n THEN Len(list) - n + 1 ELSE 1, Len(list))
Elems(list) == {list[i] : i \in 1..Len(list)}

\* validate_progress: the insights, each yielded as a reasoning event
validate_progress(iteration, recent_tools) ==
    (IF Len(recent_tools) >= 3 /\ Cardinality(Elems(LastN(recent_tools, 3))) = 1
     THEN <<Ev("reasoning", <<"repeated tool usage">>)>> ELSE <<>>)
    \o (IF Cardinality({i \in 1..Len(recent_tools) : IsSearch(recent_tools[i])}) > 2
            /\ iteration < max_iterations - 1
        THEN <<Ev("reasoning", <<"information gathering in progress">>)>> ELSE <<>>)
    \o (IF Len(recent_tools) >= 2 /\ iteration >= max_iterations - 2
        THEN <<Ev("reasoning", <<"preparing for synthesis">>)>> ELSE <<>>)
    \o (IF recent_tools = <<>>
        THEN <<Ev("reasoning", <<"starting">>)>>
        ELSE IF \A t \in Elems(LastN(recent_tools, 2)) : IsSearch(t)
             THEN <<Ev("reasoning", <<"consider analysis">>)>> ELSE <<>>)

\* the progress update after the tool calls of a round, lines 1914 to 1931
ProgressUpdate(tool_calls_used) ==
    Ev("reasoning",
       <<CASE "search_web_tool" \in tool_calls_used -> "information_gathering"
           [] "search_web_openrouter" \in tool_calls_used -> "real_time_research"
           [] "research_topic" \in tool_calls_used -> "comprehensive_research"
           [] "calculate_math" \in tool_calls_used -> "quantitative_analysis"
           [] "create_note" \in tool_calls_used -> "knowledge_organization"
           [] OTHER -> "tool_execution">>)

\* the tool repetition test of lines 1969 to 1971
Repetition(iteration, used) ==
    iteration > 2 /\ Cardinality(Elems(LastN(used, 3))) = 1

\* should_continue, lines 1934 to 1980; quantitative: the query holds one of the
\* words 'calculate', 'cost', ...
should_continue(iteration, used, quantitative) ==
    \/ iteration < 3
    \/ iteration < max_iterations - 1
        /\ \/ Cardinality({"search_web_tool", "search_web_openrouter", "research_topic",
                          "calculate_math", "create_note",
                          "advanced_research_with_synthesis"} \ Elems(used)) > 2
           \/ "search_web_tool" \in Elems(used) /\ "search_web_openrouter" \notin Elems(used)
           \/ /\ \E t \in Elems(used) : IsSearch(t)
              /\ "calculate_math" \notin Elems(used)
              /\ quantitative
           \/ Len(used) >= 2 /\ "create_note" \notin Elems(used)
    \/ Repetition(iteration, used)

\* the messages the loop adds to the conversation
System(content) == [role |-> "system", content |-> content]

\* the reflection added before the provider call of a round, lines 1881 to 1890
Metacognitive(a) ==
    IF a.iteration + 1 > 1 /\ a.total_tools_used # <<>>
    THEN <<System("METACOGNITIVE REFLECTION")>> ELSE <<>>

\* call_llm: the provider's message as a dict, with tool_calls when the list is
\* not empty; tool_calls: None or Some(list)
message_dict(content, tool_calls) ==
    IF tool_calls = None \/ tool_calls = Some(<<>>)
    THEN [role |-> "assistant", content |-> content]
    ELSE LET list == CHOOSE l \in tool_calls : TRUE
         IN  [role |-> "assistant", content |-> content,
              tool_calls |-> [i \in 1..Len(list) |->
                                [id |-> list[i].id, name |-> list[i].name,
                                 arguments |-> list[i].arguments]]]

\* the events of a round before its provider call
RoundHead(a) == validate_progress(a.iteration + 1, a.total_tools_used)

\* the round up to the return of call_llm(messages)
call_llm(a, content, tool_calls) ==
    LET msgs == a.messages \o Metacognitive(a) \o <<message_dict(content, tool_calls)>>
    IN  [a EXCEPT !.iteration = @ + 1, !.calls = @ + 1,
                  !.tool_response = NoToolResponse,
                  !.out = @ \o RoundHead(a),
                  !.messages = msgs, !.first = Len(msgs), !.tool_calls = tool_calls]

AgentFrame == UNCHANGED taskVars /\ UNCHANGED <<lock, sweep, strm, rsm, pool, lst, calc, sub>> /\ HistStep

\* up to the while loop: without an API key, or when the client cannot be built,
\* one error event and the generator ends
AgentStart ==
    /\ agt.pc = "idle"
    /\ \E ok \in BOOLEAN :
          agt' = IF ok
                 THEN [agt EXCEPT !.pc = "L1869", !.out = <<Ev("reasoning", <<"planning">>)>>,
                                  !.messages = <<System("agentic_system_prompt"),
                                                 [role |-> "user", content |-> "query"]>>]
                 ELSE [agt EXCEPT !.pc = "done", !.exc = "no API key", !.out = <<EvError>>]
    /\ AgentFrame

\* the tool calls of a response, one after the other, up to the one that raises
RECURSIVE Dispatch(_, _)
Dispatch(a, tool_calls) ==
    IF tool_calls = <<>> \/ a.tool_response.raised THEN a
    ELSE LET r == get_tool_response_single(Head(tool_calls))
         IN  Dispatch([a EXCEPT
                         !.tool_response = r,
                         !.messages = IF r.raised THEN @ ELSE Append(@, r.message),
                         !.executed = IF r.called THEN @ \cup {Head(tool_calls).name} ELSE @,
                         !.total_tools_used =
                             IF r.raised THEN @ ELSE Append(@, Head(tool_calls).name)],
                      Tail(tool_calls))

\* the events of a round after its tool calls
RoundTail(a, tool_calls_used, quantitative) ==
    <<ProgressUpdate(tool_calls_used)>>
    \o (IF Repetition(a.iteration, a.total_tools_used)
        THEN <<Ev("reasoning", <<"diversify">>)>> ELSE <<>>)
    \o (IF should_continue(a.iteration, a.total_tools_used, quantitative)
            /\ a.iteration < max_iterations
        THEN <<Ev("reasoning", <<"continuing">>)>> ELSE <<>>)

\* the system messages of a round after its tool calls, lines 1983 and 2000
Guidance(a, quantitative) ==
    (IF Repetition(a.iteration, a.total_tools_used)
     THEN <<System("ADAPTIVE GUIDANCE")>> ELSE <<>>)
    \o (IF should_continue(a.iteration, a.total_tools_used, quantitative)
            /\ a.iteration < max_iterations
        THEN <<System("ITERATION GUIDANCE")>> ELSE <<>>)

\* a round whose response carries tool calls (an empty list too)
AgentToolRound ==
    /\ agt.pc = "L1869"
    /\ agt.iteration < max_iterations
    /\ \E n \in 0..MaxCalls, quantitative \in BOOLEAN :
        \E tool_calls \in [1..n -> ToolCalls(1..MaxCalls)] :
          /\ \A i \in 1..n : tool_calls[i].id = i
          /\ LET a1 == call_llm(agt, <<>>, Some(tool_calls))
                 a2 == Dispatch(a1, tool_calls)
                 names == {tool_calls[i].name : i \in 1..n}
             IN  agt' = IF a2.tool_response.raised
                        THEN [a2 EXCEPT !.pc = "done", !.exc = "JSONDecodeError",
                                        !.out = Append(@, EvError)]
                        ELSE [a2 EXCEPT !.out = @ \o RoundTail(a2, names, quantitative),
                                        !.messages = @ \o Guidance(a2, quantitative)]
    /\ AgentFrame

\* a round whose response carries no tool calls: the final answer, with the
\* workflow summary when tools were used, then end_of_stream
AgentFinalRound ==
    /\ agt.pc = "L1869"
    /\ agt.iteration < max_iterations
    /\ \E final_content \in {<<>>, <<"answer">>} :
          agt' = [call_llm(agt, final_content, None) EXCEPT
                    !.pc = "done",
                    !.out = @ \o (IF final_content = <<>> THEN <<>>
                                  ELSE <<Ev("chunk",
                                            final_content
                                              \o IF agt.total_tools_used # <<>>
                                                 THEN <<"summary">> ELSE <<>>)>>)
                              \o <<EvEnd>>]
    /\ AgentFrame

\* call_llm raises: except Exception, one error event
AgentProviderRaises ==
    /\ agt.pc = "L1869"
    /\ agt.iteration < max_iterations
    /\ agt' = [agt EXCEPT !.pc = "done", !.iteration = @ + 1, !.calls = @ + 1,
                          !.exc = "APIError",
                          !.messages = @ \o Metacognitive(agt),
                          !.out = @ \o RoundHead(agt) \o <<EvError>>]
    /\ AgentFrame

\* the fallback message: the number of steps completed (one step per tool call
\* dispatched) and the set of the tools used
fallback_message(a) == <<"fallback", Len(a.total_tools_used), Elems(a.total_tools_used)>>

\* the while loop ends at max_iterations: the fallback message, then end_of_stream
AgentFallback ==
    /\ agt.pc = "L1869"
    /\ agt.iteration >= max_iterations
    /\ agt' = [agt EXCEPT !.pc = "done",
                          !.out = @ \o <<Ev("chunk", fallback_message(agt)), EvEnd>>]
    /\ AgentFrame

run_agentic_loop ==
    \/ AgentStart
    \/ AgentToolRound
    \/ AgentFinalRound
    \/ AgentProviderRaises
    \/ AgentFallback

AgentSpec == Init /\ [][run_agentic_loop]_vars

----------------------------------------------------------------------------
(* list_tasks: GET /tasks *)

ListFrame ==
    UNCHANGED taskVars /\ UNCHANGED <<sweep, strm, rsm, agt, pool, calc, sub>> /\ HistStep

\* BACKGROUND_TASKS.values(): the tasks in the order of their insertion
RECURSIVE Values(_)
Values(ids) ==
    IF ids = {} THEN <<>>
    ELSE LET t == CHOOSE u \in ids :
                    \A v \in ids :
                        \/ task[u].created_at < task[v].created_at
                        \/ (task[u].created_at = task[v].created_at /\ u <= v)
         IN  <<t>> \o Values(ids \ {t})

\* the dictionary to_dict builds
ToDict(tk) ==
    [id |-> tk.id, status |-> tk.status, created_at |-> tk.created_at,
     started_at |-> tk.started_at, completed_at |-> tk.completed_at,
     progress |-> tk.progress, duration |-> Duration(tk), error |-> tk.error,
     chunks_count |-> Len(tk.chunks)]

\* d put into a list that is sorted by created_at descending, behind the
\* dictionaries of the same created_at
RECURSIVE Insert(_, _)
Insert(d, sorted) ==
    IF sorted = <<>> THEN <<d>>
    ELSE IF Head(sorted).created_at >= d.created_at
         THEN <<Head(sorted)>> \o Insert(d, Tail(sorted))
         ELSE <<d>> \o sorted

\* tasks.sort(key=lambda x: x['created_at'], reverse=True): a stable sort
RECURSIVE SortDesc(_)
SortDesc(list) ==
    IF list = <<>> THEN <<>>
    ELSE Insert(list[Len(list)], SortDesc(SubSeq(list, 1, Len(list) - 1)))

\* with TASK_LOCK: the request's arguments, then the loop over the values
ListAcquire ==
    /\ lst.pc = "idle"
    /\ lock = "free"
    /\ lock' = "list_tasks"
    /\ \E status_filter \in {None} \cup {Some(st) : st \in TaskStatus}, limit \in 0..MaxLimit :
          lst' = [NoList EXCEPT !.pc = "L2231", !.status_filter = status_filter,
                                !.limit = limit, !.registry = BACKGROUND_TASKS,
                                !.todo = Values(BACKGROUND_TASKS)]
    /\ ListFrame

\* if status_filter and task.status != status_filter: continue
ListFilter ==
    /\ lst.pc = "L2231"
    /\ lst.todo # <<>>
    /\ lst' = IF lst.status_filter # None /\ Some(task[Head(lst.todo)].status) # lst.status_filter
              THEN [lst EXCEPT !.todo = Tail(@)]
              ELSE [lst EXCEPT !.todo = Tail(@), !.task = Head(lst.todo), !.pc = "L2234"]
    /\ UNCHANGED lock
    /\ ListFrame

\* tasks.append(task.to_dict())
ListAppend ==
    /\ lst.pc = "L2234"
    /\ lst' = [lst EXCEPT !.pc = "L2231", !.tasks = Append(@, ToDict(task[lst.task]))]
    /\ UNCHANGED lock
    /\ ListFrame

\* the loop is over: the lock is released, the list is sorted and cut to limit
ListRespond ==
    /\ lst.pc = "L2231"
    /\ lst.todo = <<>>
    /\ lock' = "free"
    /\ lst' = [lst EXCEPT !.pc = "idle",
                          !.tasks = SubSeq(SortDesc(@), 1, Min(lst.limit, Len(@)))]
    /\ ListFrame

list_tasks ==
    \/ ListAcquire
    \/ ListFilter
    \/ ListAppend
    \/ ListRespond

----------------------------------------------------------------------------
(* TASK_EXECUTOR = ThreadPoolExecutor(max_workers=5) *)

PoolFrame ==
    UNCHANGED taskVars /\ UNCHANGED <<lock, sweep, strm, rsm, agt, lst, calc, sub>> /\ HistStep

\* TASK_EXECUTOR.submit(stream_openrouter_background, task_id, ...): the work
\* item joins the executor's queue
PoolSubmit ==
    /\ pool.submitted < MaxSubmissions
    /\ pool' = [pool EXCEPT !.submitted = @ + 1,
                            !.work_queue = Append(@, pool.submitted + 1)]
    /\ PoolFrame

\* mutant: a thread is started for every work item
M_PoolTakeUnbounded ==
    /\ pool.work_queue # <<>>
    /\ pool' = [pool EXCEPT !.work_queue = Tail(@),
                            !.running = @ \cup {Head(pool.work_queue)}]
    /\ PoolFrame

\* one of the executor's threads, at most max_workers of them, takes the oldest
\* work item and calls stream_openrouter_background
PoolTake ==
    /\ pool.work_queue # <<>>
    /\ Cardinality(pool.running) < MAX_WORKERS
    /\ pool' = [pool EXCEPT !.work_queue = Tail(@),
                            !.running = @ \cup {Head(pool.work_queue)}]
    /\ PoolFrame

\* stream_openrouter_background returns: its thread is free again
PoolReturn ==
    /\ \E t \in pool.running :
          pool' = [pool EXCEPT !.running = @ \ {t}, !.finished = @ \cup {t}]
    /\ PoolFrame

PoolNext ==
    \/ PoolSubmit
    \/ PoolTake
    \/ PoolReturn

PoolSpec == Init /\ [][PoolNext]_vars

\* submission, worker, cancel requests and list requests
ListNext ==
    \/ \E t \in TaskIds : search_background(t)
    \/ \E t \in TaskIds : stream_openrouter_background(t)
    \/ cancel_task
    \/ list_tasks

ListSpec == Init /\ [][ListNext]_vars

----------------------------------------------------------------------------
(* cleanup_old_tasks and the clock *)

Expired(t) == now - task[t].created_at > MAX_TASK_AGE

\* one pass of the sweeper, under TASK_LOCK
cleanup_old_tasks ==
    /\ lock = "free"
    /\ sweep.pc = "sleep"
    /\ BACKGROUND_TASKS' = {t \in BACKGROUND_TASKS : ~Expired(t)}
    /\ UNCHANGED <<task, now, wpc, wloc, gen, creq, poll, cip, early>>
    /\ UNCHANGED others
    /\ HistStep

\* the same pass, statement by statement, for the threads that run beside it
SweepFrame ==
    UNCHANGED <<task, now, wpc, wloc, gen, creq, poll, cip, early, strm, rsm, agt, pool, lst,
                calc, sub>> /\ HistStep

\* with TASK_LOCK:
SweeperAcquire ==
    /\ sweep.pc = "sleep"
    /\ lock = "free"
    /\ lock' = "cleanup_old_tasks"
    /\ sweep' = [sweep EXCEPT !.pc = "L79"]
    /\ UNCHANGED BACKGROUND_TASKS
    /\ SweepFrame

\* mutant: only finished tasks are collected
M_SweeperScanTerminalOnly ==
    /\ sweep.pc = "L79"
    /\ sweep' = [pc |-> "L85", current_time |-> now,
                 tasks_to_remove |->
                    {t \in BACKGROUND_TASKS : Expired(t) /\ task[t].status \in Terminal}]
    /\ UNCHANGED <<BACKGROUND_TASKS, lock>>
    /\ SweepFrame

\* current_time = datetime.now(); the loop over BACKGROUND_TASKS.items()
SweeperScan ==
    /\ sweep.pc = "L79"
    /\ sweep' = [pc |-> "L85", current_time |-> now,
                 tasks_to_remove |-> {t \in BACKGROUND_TASKS : Expired(t)}]
    /\ UNCHANGED <<BACKGROUND_TASKS, lock>>
    /\ SweepFrame

\* del BACKGROUND_TASKS[task_id] for each of them, and the with block ends
SweeperDelete ==
    /\ sweep.pc = "L85"
    /\ BACKGROUND_TASKS' = BACKGROUND_TASKS \ sweep.tasks_to_remove
    /\ lock' = "free"
    /\ sweep' = NoSweep
    /\ SweepFrame

\* the clock advances by a second or by MAX_TASK_AGE seconds, MaxTicks times
Ticks(n) == (n \div MAX_TASK_AGE) + (n % MAX_TASK_AGE)

Tick ==
    /\ Ticks(now) < MaxTicks
    /\ \E d \in {1, MAX_TASK_AGE} : now' = now + d
    /\ UNCHANGED <<BACKGROUND_TASKS, task, wpc, wloc, gen, creq, poll, cip, early>>
    /\ UNCHANGED others
    /\ HistStep

----------------------------------------------------------------------------
(* The system *)

\* submission, worker, cancel requests, sweeper and clock
Next ==
    \/ \E t \in TaskIds : search_background(t)
    \/ \E t \in TaskIds : stream_openrouter_background(t)
    \/ cancel_task
    \/ cleanup_old_tasks
    \/ Tick

Spec == Init /\ [][Next]_vars

\* submission, worker, cancel requests and polls, at one clock value
PollNext ==
    \/ \E t \in TaskIds : search_background(t)
    \/ \E t \in TaskIds : stream_openrouter_background(t)
    \/ cancel_task
    \/ get_task_status

PollSpec == Init /\ [][PollNext]_vars

\* the scheduling the code relies on: a pool thread that can take a step of its
\* task takes one (the provider call returns, by assumption of the claim)
LiveSpec ==
    /\ Spec
    /\ \A t \in TaskIds : WF_vars(stream_openrouter_background(t))

\* the registry and the lock: submission, worker, cancel requests, the sweeper
\* statement by statement, and the clock
LockNext ==
    \/ \E t \in TaskIds : search_background(t)
    \/ \E t \in TaskIds : stream_openrouter_background(t)
    \/ cancel_task
    \/ SweeperAcquire
    \/ SweeperScan
    \/ SweeperDelete
    \/ Tick

LockSpec == Init /\ [][LockNext]_vars

\* submission, worker, cancel requests and task stream requests
StreamNext ==
    \/ \E t \in TaskIds : search_background(t)
    \/ \E t \in TaskIds : stream_openrouter_background(t)
    \/ cancel_task
    \/ stream_task_results

StreamSpec == Init /\ [][StreamNext]_vars

\* The three producers of events, each run on its own from the initial state:
\* the task store with its worker and its stream endpoint, one direct stream's
\* provider loop, one agentic loop. They share no variable, so a property of the
\* events of each is checked without visiting their interleavings.
TasksIdle == task = <<>> /\ creq = NoCancel /\ strm = NoStream
WireNext ==
    \/ rsm = NoReasm /\ agt = NoAgent /\ StreamNext
    \/ TasksIdle /\ agt = NoAgent /\ ReasmNext
    \/ TasksIdle /\ rsm = NoReasm /\ run_agentic_loop

WireSpec == Init /\ [][WireNext]_vars

----------------------------------------------------------------------------
(* calculate_math *)

\* the characters of the pattern's class [0-9+\-*/().\s]: the digits, the seven
\* signs and the whitespace
Allowed ==
    {"0", "1", "2", "3", "4", "5", "6", "7", "8", "9"}
        \cup {"+", "-", "*", "/", "(", ")", "."}
        \cup {" ", "\t", "\n", "\r"}
\* the characters the arguments are made of here, and the arguments
Chars == {"0", "7", "/", "(", ".", " ", "\n", "x"}
RECURSIVE Strings(_)
Strings(n) ==
    IF n = 0 THEN {<<>>}
    ELSE Strings(n - 1) \cup {Append(e, c) : e \in {x \in Strings(n - 1) : Len(x) = n - 1}, c \in Chars}

\* re.match(r'^[0-9+\-*/().\s]+$', expression): one or more characters of the
\* class from the start, up to the end of the string or to its last newline
re_match(expression) ==
    \E n \in 1..Len(expression) :
        /\ \A i \in 1..n : expression[i] \in Allowed
        /\ \/ n = Len(expression)
           \/ n = Len(expression) - 1 /\ expression[Len(expression)] = "\n"

\* mutant: the exception of eval leaves the function
M_EvalRaisePropagates(expression, eval_raises) ==
    IF re_match(expression)
    THEN [pc |-> "done", expression |-> expression, evaluated |-> TRUE,
          failed |-> eval_raises, raised |-> eval_raises,
          result |-> IF eval_raises THEN "none" ELSE "result"]
    ELSE [pc |-> "done", expression |-> expression, evaluated |-> FALSE, failed |-> FALSE,
          raised |-> FALSE, result |-> "Invalid mathematical expression"]

\* eval_raises: eval(expression) raises an Exception (ZeroDivisionError,
\* SyntaxError, ...); which strings do is Python's grammar and arithmetic, so
\* both outcomes are taken for every string that matches
calculate_math(expression, eval_raises) ==
    IF re_match(expression)
    THEN [pc |-> "done", expression |-> expression, evaluated |-> TRUE,
          failed |-> eval_raises, raised |-> FALSE,
          result |-> IF eval_raises THEN "Math calculation failed" ELSE "result"]
    ELSE [pc |-> "done", expression |-> expression, evaluated |-> FALSE, failed |-> FALSE,
          raised |-> FALSE, result |-> "Invalid mathematical expression"]

CalcCall ==
    /\ calc.pc = "idle"
    /\ \E expression \in Strings(MaxExpr), eval_raises \in BOOLEAN :
          calc' = calculate_math(expression, eval_raises)
    /\ UNCHANGED taskVars
    /\ UNCHANGED <<lock, sweep, strm, rsm, agt, pool, lst, sub>>
    /\ HistStep

\* the caller has the result; the next call
CalcReturn ==
    /\ calc.pc = "done"
    /\ calc' = NoCalc
    /\ UNCHANGED taskVars
    /\ UNCHANGED <<lock, sweep, strm, rsm, agt, pool, lst, sub>>
    /\ HistStep

CalcSpec == Init /\ [][CalcCall \/ CalcReturn]_vars

----------------------------------------------------------------------------
(* the submission beside the worker it started *)

SubmitSpec ==
    Init /\ [][\/ \E t \in TaskIds : search_background(t)
               \/ SubmitRespond
               \/ \E t \in TaskIds : stream_openrouter_background(t)
               \/ cancel_task]_vars

----------------------------------------------------------------------------
(* Claims *)

StatusSteps ==
    {<<QUEUED, IN_PROGRESS>>, <<IN_PROGRESS, COMPLETED>>, <<IN_PROGRESS, FAILED>>,
     <<IN_PROGRESS, CANCELLED>>}

\* C1: every change of a task's status is queued -> in_progress or in_progress ->
\* completed | failed | cancelled, so the statuses a task takes are a prefix of
\* queued, in_progress, one terminal status, and a terminal status never changes.
LifecycleMonotonic ==
    [][\A t \in DOMAIN task :
          task'[t].status # task[t].status =>
              <<task[t].status, task'[t].status>> \in StatusSteps]_vars

\* a cancelled task the sweeper has evicted, its worker finished
C1_Witness ==
    \E t \in DOMAIN task :
        /\ task[t].status = CANCELLED
        /\ t \notin BACKGROUND_TASKS
        /\ wpc[t] = "done"

\* C2: in every state, between two writes of the worker too, completed_at is set
\* exactly when the status is terminal.
CompletedAtIffTerminal ==
    \A t \in DOMAIN task : (task[t].completed_at # None) <=> (task[t].status \in Terminal)

\* C3: once a task's status is terminal no step changes any of its fields.
TerminalImmutable ==
    [][\A t \in DOMAIN task : task[t].status \in Terminal => task'[t] = task[t]]_vars

\* C4 as stated: a task whose cancel flag was set while it was in_progress ends
\* cancelled, with the chunks it had.
CancelInProgressEndsCancelled ==
    \A t \in DOMAIN cip :
        wpc[t] = "done" => task[t].status = CANCELLED /\ IsPrefix(cip[t], task[t].chunks)

\* C4 amended: once the flag is set on an in_progress task, the worker stores at
\* most the one event it had already received; at the next event it receives it
\* sets the status to cancelled and stores nothing; the chunks present when the
\* flag was set stay a prefix of task.chunks.
CooperativeCancel ==
    /\ [](\A t \in DOMAIN cip :
            /\ IsPrefix(cip[t], task[t].chunks)
            /\ Len(task[t].chunks) <= Len(cip[t]) + 1)
    /\ [][\A t \in DOMAIN task :
            (wpc[t] = "L148" /\ task[t].cancel_requested /\ wpc'[t] # wpc[t]) =>
                /\ task'[t].status = CANCELLED
                /\ task'[t].chunks = task[t].chunks
                /\ wpc'[t] = "L150"]_vars

\* cancelled after a cancel request on an in_progress task that had chunks
C4_Witness ==
    \E t \in DOMAIN cip :
        /\ task[t].status = CANCELLED
        /\ wpc[t] = "done"
        /\ cip[t] # <<>>
        /\ task[t].chunks = cip[t]

\* C5: under fair scheduling of the worker, a task that is in_progress reaches a
\* terminal status, and a worker that ended on an exception left the task failed.
InProgressEndsTerminal ==
    /\ \A t \in TaskIds :
          (t \in DOMAIN task /\ task[t].status = IN_PROGRESS)
              ~> (t \in DOMAIN task /\ task[t].status \in Terminal)
    /\ [](\A t \in DOMAIN task :
            gen[t].phase = "raised" /\ wpc[t] = "done" =>
                task[t].status = FAILED /\ task[t].error # None)

\* the generator raised and the worker has finished
C5_Witness ==
    \E t \in DOMAIN task :
        gen[t].phase = "raised" /\ wpc[t] = "done" /\ task[t].status = FAILED

\* C6: a cancel request that found the task terminal is answered 400 and writes
\* nothing to the task.
CancelTerminalConflict ==
    [][(creq.pc # "idle" /\ creq'.pc = "idle" /\ creq.status0 \in Terminal) =>
          creq'.resp = 400 /\ task' = task]_vars

\* C7 as stated: a task whose cancel flag was set before its worker received a
\* stream event ends cancelled with no chunks.
EarlyCancelEndsCancelled ==
    \A t \in early :
        wpc[t] = "done" => task[t].status = CANCELLED /\ task[t].chunks = <<>>

\* C7 amended: such a task never stores a chunk and never completes; its worker
\* leaves it cancelled when the stream delivers an event, failed when the
\* generator raises before its first event, and queued when the sweeper evicted
\* the task before a worker took it.
EarlyCancelOutcome ==
    \A t \in early :
        /\ task[t].chunks = <<>>
        /\ task[t].status # COMPLETED
        /\ wpc[t] = "done" =>
              task[t].status = CASE gen[t].phase = "raised" -> FAILED
                                 [] gen[t] = NoGen -> QUEUED
                                 [] OTHER -> CANCELLED

\* cancelled at the first event after an early cancel request
C7_Witness ==
    \E t \in early : wpc[t] = "done" /\ task[t].status = CANCELLED

\* C8: task.chunks only grows at its tail and is frozen once the status is
\* terminal; the chunks a poll returns extend those the previous poll returned.
ChunksAppendOnly ==
    [][/\ \A t \in DOMAIN task :
            /\ IsPrefix(task[t].chunks, task'[t].chunks)
            /\ task[t].status \in Terminal => task'[t].chunks = task[t].chunks
       /\ \A t \in TaskIds : IsPrefix(poll.prev[t], poll'.prev[t])]_vars

\* a second poll is about to return the two chunks of a finished task
C8_Witness ==
    /\ poll.pc = "L2163"
    /\ poll.r.has_chunks
    /\ Len(poll.prev[poll.id]) >= 2
    /\ Response.chunks = poll.prev[poll.id]

\* C9 as stated: the response carries chunks and result when the task was terminal
\* on arrival, and does not when the task is not terminal.
PollTerminalHasChunks ==
    poll.pc = "L2163" =>
        /\ poll.status0 \in Terminal => poll.r.has_chunks
        /\ task[poll.id].status \notin Terminal => ~poll.r.has_chunks

\* C9 amended: the response carries chunks and result when the task was completed
\* or failed on arrival, never when it was cancelled, and only when the task is
\* completed or failed by the time the response is built.
PollCompletedOrFailedHasChunks ==
    poll.pc = "L2163" =>
        /\ poll.status0 \in {COMPLETED, FAILED} => poll.r.has_chunks
        /\ poll.status0 = CANCELLED => ~poll.r.has_chunks
        /\ poll.r.has_chunks => task[poll.id].status \in {COMPLETED, FAILED}

\* the poll of a cancelled task is about to answer without chunks
C9_Witness ==
    /\ poll.pc = "L2163"
    /\ poll.status0 = CANCELLED
    /\ ~poll.r.has_chunks
    /\ task[poll.id].chunks # <<>>

\* the fields of a response, read off a value of the task
Projection(tk, r) ==
    [r EXCEPT !.status = tk.status, !.started_at = tk.started_at,
              !.completed_at = tk.completed_at, !.progress = tk.progress,
              !.duration = Duration(tk), !.error = tk.error,
              !.chunks_count = Len(tk.chunks),
              !.chunks = IF r.has_chunks THEN tk.chunks ELSE <<>>,
              !.result = IF r.has_chunks THEN tk.result ELSE None]

\* C10: the response of a poll is the projection of one value the task held
\* while the poll ran.
PollIsSnapshot ==
    poll.pc = "L2163" => \E tk \in hist : Response = Projection(tk, Response)

\* C11: every step that reads or writes the registry map is taken by the function
\* that holds TASK_LOCK: the sweeper's scan and deletion, and the lookups of the
\* worker and of cancel_task (the insert of search_background is one step that
\* takes and releases the lock).
RegistryUnderLock ==
    [][/\ SweeperScan \/ SweeperDelete => lock = "cleanup_old_tasks"
       /\ \A t \in TaskIds :
            /\ WorkerLookup(t) => lock = "stream_openrouter_background"
            /\ CancelLookup(t) => lock = "cancel_task"]_vars

\* C12: when generate() of the task stream endpoint has ended, the event it
\* yielded last is an end_of_stream event.
StreamEndsWithEndOfStream ==
    strm.pc = "done" => "end_of_stream" \in strm.last

\* the provider stream was exhausted: the run ended on end_of_stream
Exhausted == rsm.pc = "done" /\ rsm.out[Len(rsm.out)] = EvEnd

\* the texts of the chunk events laid end to end
RECURSIVE ChunkText(_)
ChunkText(out) ==
    IF out = <<>> THEN <<>>
    ELSE (IF Head(out).key = "chunk" THEN Head(out).val ELSE <<>>) \o ChunkText(Tail(out))

\* text without a piece of a sentinel
Plain(text) == \A i \in 1..Len(text) : text[i] \notin {HEAD, "START]]", "END]]"}

\* the parts of a text around its first block
Body(text) == Before(After(text, start_marker), end_marker)
Post(text) == After(After(text, start_marker), end_marker)
\* plain text, start sentinel, a body without sentinel text, end sentinel, plain text
OneBlock(text) ==
    /\ Find(text, start_marker) # 0
    /\ Find(After(text, start_marker), end_marker) # 0
    /\ Plain(Before(text, start_marker))
    /\ Plain(Body(text))
    /\ Plain(Post(text))

\* C14: when the deltas of an exhausted stream, laid end to end, are plain text,
\* the start sentinel, a valid JSON text, the end sentinel and plain text, however
\* they were cut into deltas, the events hold exactly one chart_config event, its
\* value the parsed JSON, and no chunk event holds a piece of a sentinel.
ChartRoundTrip ==
    (Exhausted /\ OneBlock(rsm.sent) /\ IsJson(Body(rsm.sent))) =>
        /\ Only(rsm.out, "chart_config") = <<Ev("chart_config", json_loads(Body(rsm.sent)))>>
        /\ Plain(ChunkText(rsm.out))

\* the content with every block that parses taken out
RECURSIVE Expected(_)
Expected(text) ==
    IF Find(text, start_marker) = 0 \/ Find(After(text, start_marker), end_marker) = 0
    THEN text
    ELSE Before(text, start_marker)
            \o (IF IsJson(Body(text)) THEN <<>>
                ELSE start_marker \o Body(text) \o end_marker)
            \o Expected(Post(text))

\* C15: when the stream is exhausted, the chunk texts laid end to end are the
\* content deltas laid end to end with every block that parsed taken out.
NeverDropsContent ==
    Exhausted => ChunkText(rsm.out) = Expected(rsm.sent)

\* what the loop holds when the stream ends
Held(r) ==
    IF r.in_chart_config_block THEN start_marker \o r.chart_config_str \o r.buffer
    ELSE r.buffer

\* C16: the step that ends an exhausted stream yields what the loop still holds as
\* one chunk, an unterminated block with its start sentinel in front, and then
\* end_of_stream, the only one and the last event.
FlushAtExhaustion ==
    [][(rsm.pc = "stream" /\ rsm'.pc = "done" /\ rsm'.out[Len(rsm'.out)] = EvEnd) =>
          /\ Held(rsm) # <<>> => /\ Len(rsm'.out) > Len(rsm.out) + 1
                                 /\ rsm'.out[Len(rsm.out) + 1] = Ev("chunk", Held(rsm))
          /\ Only(rsm'.out, "end_of_stream") = <<EvEnd>>]_vars

\* C17: when the deltas of an exhausted stream, laid end to end, are plain text,
\* the start sentinel, a text that is not valid JSON, the end sentinel and plain
\* text, the run ends without an error, no chart_config event is yielded, exactly
\* one chunk event is the start sentinel, the block text and the end sentinel, and
\* the text after the block is yielded too.
MalformedBlockDegrades ==
    (Exhausted /\ OneBlock(rsm.sent) /\ ~IsJson(Body(rsm.sent))) =>
        /\ Only(rsm.out, "chart_config") = <<>>
        /\ Only(rsm.out, "error") = <<>>
        /\ Cardinality({i \in 1..Len(rsm.out) :
              rsm.out[i] = Ev("chunk", start_marker \o Body(rsm.sent) \o end_marker)}) = 1
        /\ ChunkText(rsm.out) = rsm.sent


----------------------------------------------------------------------------
(* The tool dispatcher and the agentic loop *)

\* C19: whatever the tool name, the arguments string and the behaviour of the
\* callable, get_tool_response_single lets no exception out and returns a
\* role:tool message whose content is a result or an error envelope.
DispatcherContainment ==
    agt.tool_response # NoToolResponse =>
        /\ ~agt.tool_response.raised
        /\ agt.tool_response.message.role = "tool"
        /\ agt.tool_response.message.content
               \in {"result", "Tool execution failed", "Unknown tool"}

\* the run has ended and the provider answered every call made to it
Answered == agt.pc = "done" /\ agt.calls > 0 /\ agt.exc # "APIError"

\* C20: whatever the provider answers, run_agentic_loop makes at most
\* max_iterations provider calls and ends having emitted a final answer or the
\* fallback message, and no callable outside the declared catalog is ever run.
AgenticTermination ==
    /\ agt.calls <= max_iterations
    /\ agt.executed \subseteq AGENTIC_TOOLS
    /\ Answered => /\ Only(agt.out, "chunk") # <<>>
                   /\ agt.out[Len(agt.out)] = EvEnd


----------------------------------------------------------------------------
(* The events on the wire *)

Discriminating == {"chunk", "chart_config", "reasoning", "error", "end_of_stream"}

\* the key sets of the events emitted so far: by the direct stream (the events a
\* worker stored, the events of the provider loop), by the agentic loop, and the
\* last event of the task stream endpoint
Emitted ==
    UNION {{{task[t].chunks[i].key} : i \in 1..Len(task[t].chunks)} : t \in DOMAIN task}
        \cup {{rsm.out[i].key} : i \in 1..Len(rsm.out)}
        \cup {{agt.out[i].key} : i \in 1..Len(agt.out)}
        \cup (IF strm.last = {} THEN {} ELSE {strm.last})

\* C13 as stated: every event emitted by stream_openrouter, run_agentic_loop and
\* stream_task_results carries exactly one of the discriminating keys chunk,
\* chart_config, reasoning, error, end_of_stream.
ExactlyOneDiscriminatingKey ==
    \A keys \in Emitted : Cardinality(keys \cap Discriminating) = 1

\* C13: every event emitted by stream_openrouter, run_agentic_loop and
\* stream_task_results carries at most one of the discriminating keys; an event
\* that carries none is a web_search_results or a perplexity_sources event of
\* the direct stream (relayed by the task stream endpoint as stored), or a status
\* event of the task stream endpoint, with the key status alone or with the
\* keys status and progress.
AtMostOneDiscriminatingKey ==
    \A keys \in Emitted :
        /\ Cardinality(keys \cap Discriminating) <= 1
        /\ keys \cap Discriminating = {} =>
              keys \in {{"web_search_results"}, {"perplexity_sources"},
                        StatusCancelled, StatusUpdate}

\* a closed task stream that relayed a web search event
C13_Witness ==
    /\ strm.pc = "done"
    /\ strm.last = StreamEnd
    /\ \E i \in 1..Len(strm.sent) : strm.sent[i].key = "web_search_results"


\* the provider loop was exhausted without a content delta
ExhaustedEmpty == Exhausted /\ ~rsm.content_received_from_openrouter

\* such a run yields exactly one end_of_stream event and no error event
SoftWarning ==
    ExhaustedEmpty => /\ Only(rsm.out, "end_of_stream") = <<EvEnd>>
                      /\ Only(rsm.out, "error") = <<>>

\* the worker of task t has returned, and the stream that drove it ended with
\* end_of_stream without a chunk event
ZeroContent(t) ==
    /\ t \in DOMAIN task
    /\ wpc[t] = "done"
    /\ gen[t].phase = "ended"
    /\ wloc[t].json_data = EvEnd
    /\ Only(task[t].chunks, "chunk") = <<>>

\* C18 as stated: a provider stream exhausted without a content delta makes the
\* reassembler emit exactly one end_of_stream event and no error event, and a
\* background task driven by such a stream ends completed.
ZeroContentCompletes ==
    /\ SoftWarning
    /\ \A t \in TaskIds : ZeroContent(t) => task[t].status = COMPLETED

\* C18: a provider stream exhausted without a content delta makes the
\* reassembler emit exactly one end_of_stream event and no error event, and a
\* background task driven by such a stream never ends failed: it ends
\* completed, or cancelled when its cancellation was requested before the worker
\* took the end_of_stream event.
ZeroContentNeverFails ==
    /\ SoftWarning
    /\ \A t \in TaskIds :
          ZeroContent(t) =>
              /\ task[t].status \in {COMPLETED, CANCELLED}
              /\ task[t].status = CANCELLED => task[t].cancel_requested

\* a task completed by a stream without chunk events
C18_Witness == \E t \in TaskIds : ZeroContent(t) /\ task[t].status = COMPLETED


----------------------------------------------------------------------------
(* The exits of the agentic loop *)

\* C21: every exit path of run_agentic_loop emits user-visible output: when the
\* generator has ended it has emitted a chunk event (the final answer or the
\* fallback summary) or an error event, also when the provider answered without
\* tool calls and with empty or null content.
EveryExitIsVisible ==
    agt.pc = "done" =>
        \/ Only(agt.out, "chunk") # <<>>
        \/ Only(agt.out, "error") # <<>>


----------------------------------------------------------------------------
(* The fields of a finished task *)

\* C22: whenever a task's status is completed, its progress is 100 and its
\* result holds the number of chunks, the length of the content and a summary
\* that is the concatenation of the received chunk texts cut to 500 characters;
\* a stream of the single text delta "4" and end_of_stream ends completed with
\* the one text chunk "4" and the summary "4".
CompletedHasResult ==
    \A t \in DOMAIN task :
        /\ task[t].status = COMPLETED =>
              /\ task[t].progress = 100
              /\ task[t].result =
                    Some(Result(Len(task[t].chunks), ChunkText(task[t].chunks)))
        /\ (wpc[t] = "done" /\ task[t].chunks = <<EvChunk, EvEnd>>) =>
              /\ task[t].status = COMPLETED
              /\ task[t].result # None


\* the worker of task t took the task and has returned
Finished(t) == t \in DOMAIN task /\ wpc[t] = "done" /\ task[t].status # QUEUED

\* the last event the worker of t received is an error event; the generator of t
\* let an exception out
ErrorDelivered(t) == wloc[t].json_data = EvError
ExceptionRaised(t) == gen[t].phase = "raised"

\* a stream that has ended or raised is not started again
NeverRetried ==
    \A t \in TaskIds : gen[t].phase \in {"ended", "raised"} => gen'[t] = gen[t]

\* C23 as stated: a task ends failed exactly when the stream delivered an error
\* event or an exception was raised in the worker; the error field of a failed
\* task whose worker has finished is set; a provider error is never retried.
FailedIffErrorOrException ==
    /\ [](\A t \in TaskIds :
            Finished(t) =>
                /\ task[t].status = FAILED <=> (ErrorDelivered(t) \/ ExceptionRaised(t))
                /\ task[t].status = FAILED => task[t].error # None)
    /\ [][NeverRetried]_vars

\* C23: a task ends failed only when the stream delivered an error event or an
\* exception was raised in the worker; an exception always ends it failed, and an
\* error event ends it failed unless the cancellation was requested before the
\* worker took the event, when it ends cancelled; the error field of a failed
\* task whose worker has finished is set; a provider error is never retried.
FailedOnlyOnErrorOrException ==
    /\ [](\A t \in TaskIds :
            Finished(t) =>
                /\ task[t].status = FAILED => (ErrorDelivered(t) \/ ExceptionRaised(t))
                /\ ExceptionRaised(t) => task[t].status = FAILED
                /\ ErrorDelivered(t) =>
                      \/ task[t].status = FAILED
                      \/ task[t].status = CANCELLED /\ task[t].cancel_requested
                /\ task[t].status = FAILED => task[t].error # None)
    /\ [][NeverRetried]_vars

\* a task failed by an error event of its stream
C23_Witness ==
    \E t \in TaskIds : Finished(t) /\ ErrorDelivered(t) /\ task[t].status = FAILED


\* C24: a task's progress is an integer in 0..100 that never decreases, is at
\* most 99 while the task is in_progress and is 100 only when the task is
\* completed.
ProgressBounds ==
    /\ [](\A t \in DOMAIN task :
            /\ task[t].progress \in 0..100
            /\ task[t].status = IN_PROGRESS => task[t].progress <= 99
            /\ task[t].progress = 100 => task[t].status = COMPLETED)
    /\ [][\A t \in DOMAIN task : task'[t].progress >= task[t].progress]_vars


----------------------------------------------------------------------------
(* The worker pool *)

Queued(t) == \E i \in 1..Len(pool.work_queue) : pool.work_queue[i] = t

----------------------------------------------------------------------------
(* Who writes a task *)

\* the fields of a task that its worker writes
WorkerFields(tk) ==
    <<tk.status, tk.started_at, tk.completed_at, tk.progress, tk.chunks, tk.result,
      tk.error>>

\* C26: each submitted task is executed by one worker, at most once, and that
\* worker is the only actor that writes the task's status, timestamps, progress,
\* chunks, result and error; a cancel request writes only cancel_requested.
SingleWriter ==
    [][\A t \in DOMAIN task :
          /\ wpc[t] = "done" => wpc'[t] = "done"
          /\ wpc'[t] = "submitted" => wpc[t] = "submitted"
          /\ WorkerFields(task'[t]) # WorkerFields(task[t]) =>
                stream_openrouter_background(t)
          /\ cancel_task => WorkerFields(task'[t]) = WorkerFields(task[t])
          /\ task'[t].cancel_requested # task[t].cancel_requested => cancel_task]_vars

\* a cancel request has written its flag while the worker of the task runs
C26_Witness ==
    \E t \in DOMAIN task :
        /\ task[t].cancel_requested
        /\ task[t].status = IN_PROGRESS
        /\ task[t].chunks # <<>>


----------------------------------------------------------------------------
(* The list of tasks *)

\* a list_tasks request has been answered
Listed == lst.pc = "idle" /\ lst.registry # {}

\* C27: list_tasks with status filter s and limit n >= 0 returns only tasks of
\* the registry whose status is s (all tasks without a filter), ordered by
\* created_at descending, and exactly the min(n, number of matching tasks) most
\* recently created ones.
ListMatchesFilter ==
    Listed =>
        /\ \A i \in 1..Len(lst.tasks) :
              /\ lst.tasks[i].id \in lst.registry
              /\ lst.status_filter # None => Some(lst.tasks[i].status) = lst.status_filter
        /\ \A i, j \in 1..Len(lst.tasks) :
              i < j => lst.tasks[i].created_at >= lst.tasks[j].created_at
        /\ Len(lst.tasks) <= lst.limit


----------------------------------------------------------------------------
(* The sweeper *)

\* C28: each pass of cleanup_old_tasks removes from the registry every task whose
\* age since created_at, at the pass's reading of the clock, exceeds
\* MAX_TASK_AGE, whatever its status, and removes no other task.
SweepRemovesExactlyExpired ==
    [][(sweep.pc = "L85" /\ sweep'.pc = "sleep") =>
          /\ BACKGROUND_TASKS' \subseteq BACKGROUND_TASKS
          /\ \A t \in BACKGROUND_TASKS :
                t \notin BACKGROUND_TASKS' <=>
                    sweep.current_time - task[t].created_at > MAX_TASK_AGE]_vars

\* a task evicted while its worker runs
C28_Witness ==
    \E t \in DOMAIN task :
        /\ t \notin BACKGROUND_TASKS
        /\ task[t].status = IN_PROGRESS
        /\ sweep.pc = "sleep"


----------------------------------------------------------------------------
(* The task stream and the worker *)

\* C30: whatever the interleaving with the worker, the task stream relays every
\* chunk of its task once and in the order of the appends before it emits
\* end_of_stream: what it has relayed is always a prefix of task.chunks, and all
\* of task.chunks when the stream is closed.
RelaysEveryChunkOnce ==
    strm.pc # "idle" /\ strm.id \in DOMAIN task =>
        /\ IsPrefix(strm.sent, task[strm.id].chunks)
        /\ (strm.pc = "done" /\ strm.last = StreamEnd) =>
              strm.sent = task[strm.id].chunks


----------------------------------------------------------------------------
\* C31: the chunks stored in a task whose status is completed or failed are,
\* event for event and in the same order, the events its stream_openrouter
\* generator yielded, the final end_of_stream or error event included
StoredEqualsStreamed ==
    \A t \in DOMAIN task :
        task[t].status \in {COMPLETED, FAILED} => task[t].chunks = gen[t].out

\* a task completed after an event and the end_of_stream that followed it
C31_Witness ==
    \E t \in DOMAIN task :
        /\ wpc[t] = "done"
        /\ task[t].status = COMPLETED
        /\ Len(gen[t].out) >= 2
        /\ gen[t].out[Len(gen[t].out)] = EvEnd


----------------------------------------------------------------------------
\* the tool calls of the last provider response
Calls(a) == IF a.tool_calls = None THEN <<>> ELSE CHOOSE l \in a.tool_calls : TRUE
\* a call of the list has an arguments string that is no JSON
Malformed(list) == \E i \in 1..Len(list) : list[i].arguments = "malformed"
\* the dispatcher got as far as the callable of call i
Dispatched(list, i) == \A j \in 1..i : list[j].arguments # "malformed"
CallableRaises(c) ==
    c.name \in TOOL_MAPPING /\ c.arguments = "object" /\ c.behaviour = "raises"
\* the message at position k of the conversation is the tool message of call c
\* with the given content
IsToolMessage(a, k, c, content) ==
    /\ k <= Len(a.messages)
    /\ a.messages[k].role = "tool"
    /\ a.messages[k].tool_call_id = c.id
    /\ a.messages[k].name = c.name
    /\ a.messages[k].content = content
\* the step is a round of the loop: a provider call that returned
ProviderRound == agt'.calls = agt.calls + 1 /\ agt'.exc # "APIError"

----------------------------------------------------------------------------
\* the loop handed call i of the list to the dispatcher
Reached(list, i) == \A j \in 1..(i - 1) : list[j].arguments # "malformed"

\* C33: when a tool call handed to the dispatcher names a tool that is not in
\* TOOL_MAPPING, no callable is run, the conversation gets a role:tool message
\* whose content is the unknown-tool error for that name, and the loop is back at
\* its head
UnknownToolIsData ==
    [][ProviderRound =>
          \A i \in 1..Len(Calls(agt')) :
              Reached(Calls(agt'), i) /\ Calls(agt')[i].name \notin TOOL_MAPPING =>
                  /\ Calls(agt')[i].name \notin agt'.executed
                  /\ IsToolMessage(agt', agt'.first + i, Calls(agt')[i], "Unknown tool")
                  /\ agt'.pc = "L1869"]_vars


----------------------------------------------------------------------------
\* C34: after a round whose response carries tool calls, the conversation holds,
\* directly after the assistant message of the response, one role:tool message
\* per tool call, in the order of the calls and with their tool_call_ids, and no
\* other role:tool message after them
ToolMessagesFollowCalls ==
    [][ProviderRound /\ Calls(agt') # <<>> =>
          /\ agt'.messages[agt'.first].role = "assistant"
          /\ Len(agt'.messages) >= agt'.first + Len(Calls(agt'))
          /\ \A k \in (agt'.first + 1)..Len(agt'.messages) :
                IF k <= agt'.first + Len(Calls(agt'))
                THEN /\ agt'.messages[k].role = "tool"
                     /\ agt'.messages[k].tool_call_id = Calls(agt')[k - agt'.first].id
                ELSE agt'.messages[k].role # "tool"]_vars


----------------------------------------------------------------------------
\* C35: when the loop has ended after fewer than max_iterations provider calls,
\* the last response carried no tool calls or the last provider call raised: a
\* response with tool calls before the limit is always followed by another
\* provider call
EndsEarlyOnlyWithoutToolCalls ==
    agt.pc = "done" /\ agt.calls < max_iterations =>
        agt.tool_calls = None \/ agt.exc = "APIError"


----------------------------------------------------------------------------
\* the positions of the events with the given key
Positions(out, key) == {k \in 1..Len(out) : out[k].key = key}

\* C36: when max_iterations provider responses carried tool calls and the loop
\* has ended, it yielded no error event, and its last two events are the one
\* fallback chunk, with the number of steps completed and the tools used, and the
\* one end_of_stream
ExhaustionEndsWithFallback ==
    agt.pc = "done" /\ agt.calls = max_iterations /\ agt.tool_calls # None
            /\ agt.exc # "APIError" =>
        /\ Positions(agt.out, "error") = {}
        /\ Positions(agt.out, "end_of_stream") = {Len(agt.out)}
        /\ Positions(agt.out, "chunk") = {Len(agt.out) - 1}
        /\ agt.out[Len(agt.out) - 1].val = fallback_message(agt)


----------------------------------------------------------------------------
\* the loop ended on a response without tool calls
NaturalTermination ==
    agt.pc = "done" /\ agt.calls >= 1 /\ agt.tool_calls = None /\ agt.exc = "none"

\* C37: on every natural termination, one in the first iteration without any
\* tool use included, the answer that was yielded ends with the workflow summary
NaturalTerminationHasSummary ==
    NaturalTermination =>
        \E k \in Positions(agt.out, "chunk") :
            /\ agt.out[k].val # <<>>
            /\ agt.out[k].val[Len(agt.out[k].val)] = "summary"


----------------------------------------------------------------------------
\* the responses in the conversation, oldest first, as positions in messages
Responses(a) == {k \in 1..Len(a.messages) : a.messages[k].role = "assistant"}
\* the tools requested by the response at position k
RoundTools(a, k) ==
    IF "tool_calls" \in DOMAIN a.messages[k]
    THEN {a.messages[k].tool_calls[i].name : i \in 1..Len(a.messages[k].tool_calls)}
    ELSE {}
\* the positions of the last three responses
LastRounds(a) == {k \in Responses(a) : Cardinality({j \in Responses(a) : j > k}) < 3}
SameToolInLastThreeRounds(a) ==
    /\ Cardinality(Responses(a)) >= 3
    /\ \E n \in ToolNames : \A k \in LastRounds(a) : n \in RoundTools(a, k)
\* the round that just ended added the ADAPTIVE GUIDANCE message and yielded the
\* tool repetition event
Injected ==
    /\ \E k \in (agt'.first + 1)..Len(agt'.messages) :
          agt'.messages[k].role = "system" /\ agt'.messages[k].content = "ADAPTIVE GUIDANCE"
    /\ \E k \in (Len(agt.out) + 1)..Len(agt'.out) :
          agt'.out[k].key = "reasoning" /\ agt'.out[k].val = <<"diversify">>

\* C38: a round with tool calls injects the strategy adaptation exactly when the
\* same tool was used in each of the last 3 rounds, and never when fewer than 3
\* tool uses are recorded
AdaptationOnlyOnRepetition ==
    [][ProviderRound /\ agt'.tool_calls # None /\ ~agt'.tool_response.raised =>
          /\ Injected <=> SameToolInLastThreeRounds(agt')
          /\ Injected => Len(agt'.total_tools_used) >= 3]_vars


----------------------------------------------------------------------------
\* every character of the argument is a digit, one of + - * / ( ) . or whitespace
AllAllowed(expression) ==
    \A i \in 1..Len(expression) : expression[i] \in Allowed

\* C39: calculate_math runs eval only on a non-empty argument made of digits,
\* + - * / ( ) . and whitespace; any other argument gets the invalid-expression
\* error result and is not evaluated; a failure of eval is returned as an error
\* result, and no exception leaves the function
EvaluatesOnlyArithmetic ==
    calc.pc = "done" =>
        /\ calc.evaluated <=> calc.expression # <<>> /\ AllAllowed(calc.expression)
        /\ ~calc.evaluated => calc.result = "Invalid mathematical expression"
        /\ calc.failed => calc.result = "Math calculation failed"
        /\ ~calc.raised

\* an argument of three allowed characters whose evaluation failed
C39_Witness ==
    /\ calc.pc = "done"
    /\ Len(calc.expression) = 3
    /\ calc.evaluated
    /\ calc.failed
    /\ calc.result = "Math calculation failed"

----------------------------------------------------------------------------
\* C40: the answer of a submission reports the status queued
SubmitReportsQueued ==
    sub.response.status \in {"none", QUEUED}

====
